---- MODULE Spec2Model ----
(***************************************************************************)
(* Condition-evaluation engine of chimera-supervisor: the threshold check  *)
(* handlers of controllers/handlers.py (Humidity, Temperature, WindSpeed,  *)
(* Dew) acting on a check record of controllers/model.py.                  *)
(*                                                                         *)
(* Time is counted in ticks of a tenth of an hour.  A check's time field   *)
(* and a handler's return value are optional: <<>> stands for Python's     *)
(* None, <<x>> for a value x.                                              *)
(***************************************************************************)
EXTENDS Integers, Sequences, FiniteSets

VARIABLES
    check,        \* the check record handed to process (mode, threshold, deltaTime, time)
    now,          \* the site clock, what site.ut() returns when asked
    result,       \* what the last process call returned: <<>> (None) or <<ret, msg>>
    called,       \* the last process call: its readings and check.time before it; <<>> before any call
    prevRaw,      \* the raw condition seen by the call before the last one; <<>> if none
    runStart,     \* first clock reading of the current unbroken run of safe calls; <<>> outside a run
    lastUnsafe,   \* clock reading of the most recent unsafe call; <<>> if none
    runConfirms,  \* number of True verdicts in the current run (capped at MaxConfirms)
    prevTrueAt,   \* last clock reading of the latest True call before the last call; <<>> if none
    repeatOf,     \* <<r>> when the last call repeated the call before it (same readings, same
                  \* clock reading throughout), r being what that call returned; <<>> otherwise
    func,         \* the __requires__ attribute of a decorated function: <<>> absent, <<list>> present
    declared,     \* the names given to requires for that function, in the order applied
    lock          \* the four threshold checks run side by side on the same inputs; <<>> when unused

vars == <<check, now, result, called, prevRaw, runStart, lastUnsafe,
          runConfirms, prevTrueAt, repeatOf, func, declared, lock>>

\* The state of the parts a specification leaves alone.
aux == <<func, declared, lock>>

-----------------------------------------------------------------------------
(* Bounds of the model *)

\* The clock runs from 0 to MaxClock ticks.
MaxClock == 22

\* runConfirms stops counting at MaxConfirms.
MaxConfirms == 3

\* Ticks that may pass between two process calls (half an hour, 0.6 hour).
Steps == {5, 6}

\* Ticks that may pass inside one process call, between its two site.ut() reads.
Drift == {0, 1}

\* check.mode values: 0 and 1 are the defined modes, 2 is an undefined one.
Modes == {0, 1, 2}

\* check.deltaTime values, in hours.
DeltaTimes == {-1, 0, 1, 2}

\* Threshold stored in the check record.
Thresholds == {80}

\* Values the weather station may report.
Readings == {70, 80, 90}
DewPoints == {0, 10}

None == <<>>

\* The unit of the clock: an hour is ten ticks.
Hours(h) == h * 10

-----------------------------------------------------------------------------
(* Python values *)

\* A deviation of timedelta: the number of hours taken as a number of ticks
\* (timedelta(seconds=h) in place of timedelta(hours=h)).
timedelta_wrongUnit(h) == h

\* datetime.timedelta(hours=h), in ticks
timedelta(h) == h * 10

\* The check records of model.py, one per threshold check type, as constructed:
\* the threshold from the constructor, time unset.
CheckHumidity(humidity, mode, deltaTime) ==
    [check_type |-> "CheckHumidity", humidity |-> humidity,
     mode |-> mode, deltaTime |-> deltaTime, time |-> None]

CheckTemperature(temperature, mode, deltaTime) ==
    [check_type |-> "CheckTemperature", temperature |-> temperature,
     mode |-> mode, deltaTime |-> deltaTime, time |-> None]

CheckWindSpeed(windspeed, mode, deltaTime) ==
    [check_type |-> "CheckWindSpeed", windspeed |-> windspeed,
     mode |-> mode, deltaTime |-> deltaTime, time |-> None]

CheckDew(tempdiff, mode, deltaTime) ==
    [check_type |-> "CheckDew", tempdiff |-> tempdiff,
     mode |-> mode, deltaTime |-> deltaTime, time |-> None]

-----------------------------------------------------------------------------
(* Deviations of the handlers, each the code with one plausible slip.  The *)
(* properties below are checked to tell the handlers from these.           *)

\* The mode-1 branch with the slip named by bug.
Deviant_mode1(c, raw, msg, ut1, ut2, bug) ==
    IF ~raw THEN
        [out   |-> <<FALSE, msg>>,
         check |-> CASE bug = "noUnsafeStamp" -> c
                     [] bug = "unsafeClears"  -> [c EXCEPT !.time = None]
                     [] OTHER                 -> [c EXCEPT !.time = <<ut1>>]]
    ELSE IF c.time # None THEN
        LET ret == IF bug = "le"
                   THEN c.time[1] + timedelta(c.deltaTime) <= ut1
                   ELSE c.time[1] + timedelta(c.deltaTime) < ut1
        IN  IF ret THEN
                [out   |-> <<ret, msg \o <<"Elapsed time ok">>>>,
                 check |-> IF bug = "noRestamp" THEN c ELSE [c EXCEPT !.time = <<ut2>>]]
            ELSE
                [out   |-> <<ret, msg \o <<"Elapsed time too short.">>>>,
                 check |-> IF bug = "restampTooShort" THEN [c EXCEPT !.time = <<ut2>>] ELSE c]
    ELSE
        [out   |-> <<FALSE, msg>>,
         check |-> IF bug = "noFirstStamp" THEN c ELSE [c EXCEPT !.time = <<ut1>>]]

Deviant_Humidity(c, humidity, ut1, ut2, bug) ==
    IF c.mode = 0 THEN
        [out   |-> <<c.humidity < humidity, <<"Humidity">>>>,
         check |-> IF c.humidity < humidity THEN [c EXCEPT !.time = <<ut1>>] ELSE c]
    ELSE IF c.mode = 1 THEN
        Deviant_mode1(c, c.humidity > humidity, <<"Humidity">>, ut1, ut2, bug)
    ELSE [out |-> None, check |-> c]

Deviant_Temperature(c, temperature, ut1, ut2, bug) ==
    IF c.mode = 0 THEN
        [out |-> <<c.temperature > temperature, <<"Temperature">>>>, check |-> c]
    ELSE IF c.mode = 1 THEN
        Deviant_mode1(c, c.temperature < temperature, <<"Temperature">>, ut1, ut2, bug)
    ELSE [out |-> None, check |-> c]

Deviant_WindSpeed(c, windspeed, ut1, ut2, bug) ==
    IF c.mode = 0 THEN
        [out |-> <<c.windspeed < windspeed, <<"Wind speed">>>>, check |-> c]
    ELSE IF c.mode = 1 THEN
        Deviant_mode1(c, c.windspeed > windspeed, <<"Windspeed">>, ut1, ut2, bug)
    ELSE [out |-> None, check |-> c]

\* Humidity: a confirmation that leaves check.time as it was.
Humidity_noRestamp(c, humidity, ut1, ut2) ==
    Deviant_Humidity(c, humidity, ut1, ut2, "noRestamp")

\* Humidity: the "too short" branch stamps check.time as well.
Humidity_restampTooShort(c, humidity, ut1, ut2) ==
    Deviant_Humidity(c, humidity, ut1, ut2, "restampTooShort")

\* Temperature: an unsafe reading leaves check.time as it was.
Temperature_noUnsafeStamp(c, temperature, ut1, ut2) ==
    Deviant_Temperature(c, temperature, ut1, ut2, "noUnsafeStamp")

\* Temperature: an unsafe reading resets check.time to None.
Temperature_unsafeClears(c, temperature, ut1, ut2) ==
    Deviant_Temperature(c, temperature, ut1, ut2, "unsafeClears")

\* Humidity: the elapsed-time comparison is <= in place of <.
Humidity_le(c, humidity, ut1, ut2) ==
    Deviant_Humidity(c, humidity, ut1, ut2, "le")

\* WindSpeed: the elapsed-time comparison is <= in place of <.
WindSpeed_le(c, windspeed, ut1, ut2) ==
    Deviant_WindSpeed(c, windspeed, ut1, ut2, "le")

\* WindSpeed: the "too short" branch stamps check.time as well.
WindSpeed_restampTooShort(c, windspeed, ut1, ut2) ==
    Deviant_WindSpeed(c, windspeed, ut1, ut2, "restampTooShort")

\* WindSpeed: the first safe reading does not stamp check.time.
WindSpeed_noFirstStamp(c, windspeed, ut1, ut2) ==
    Deviant_WindSpeed(c, windspeed, ut1, ut2, "noFirstStamp")

\* Dew: the mode-1 comparison is <= in place of <.
Dew_rawLe(c, temperature, dewpoint, ut1, ut2) ==
    IF c.mode = 0 THEN
        [out |-> <<c.tempdiff > temperature - dewpoint, <<"Dew">>>>, check |-> c]
    ELSE IF c.mode = 1 THEN
        Deviant_mode1(c, c.tempdiff <= temperature - dewpoint, <<"Dew">>, ut1, ut2, "")
    ELSE [out |-> None, check |-> c]

\* Dew: a mode other than 0 is handled as mode 1 (else in place of elif).
Dew_elseIsMode1(c, temperature, dewpoint, ut1, ut2) ==
    IF c.mode = 0 THEN
        [out |-> <<c.tempdiff > temperature - dewpoint, <<"Dew">>>>, check |-> c]
    ELSE
        Deviant_mode1(c, c.tempdiff < temperature - dewpoint, <<"Dew">>, ut1, ut2, "")

\* Dew: the dew point is not subtracted from the temperature.
Dew_ignoreDewPoint(c, temperature, dewpoint, ut1, ut2) ==
    IF c.mode = 0 THEN
        [out |-> <<c.tempdiff > temperature, <<"Dew">>>>, check |-> c]
    ELSE IF c.mode = 1 THEN
        Deviant_mode1(c, c.tempdiff < temperature, <<"Dew">>, ut1, ut2, "")
    ELSE [out |-> None, check |-> c]

-----------------------------------------------------------------------------
(* The handlers' process methods.  Each takes the check record, the values *)
(* the weather station reports and the values ut1, ut2 that the first and  *)
(* the second site.ut() read of the call return, and gives the returned    *)
(* value (out) and the check record as the call leaves it.                 *)

HumidityHandler_process(c, humidity, ut1, ut2) ==
    IF c.mode = 0 THEN
        LET ret == c.humidity < humidity
            msg == IF ~ret THEN <<"Humidity OK">>
                   ELSE <<"Humidity higher than specified threshold">>
        IN  [out   |-> <<ret, msg>>,
             check |-> IF ret THEN [c EXCEPT !.time = <<ut1>>] ELSE c]
    ELSE IF c.mode = 1 THEN
        LET raw == c.humidity > humidity
            msg == IF ~raw THEN <<"Nothing to do. Humidity higher than threshold">>
                   ELSE <<"Humidity lower than threshold">>
        IN  IF ~raw THEN
                [out |-> <<raw, msg>>, check |-> [c EXCEPT !.time = <<ut1>>]]
            ELSE IF c.time # None THEN
                LET ret == c.time[1] + timedelta(c.deltaTime) < ut1
                IN  IF ret THEN
                        [out   |-> <<ret, msg \o <<"Elapsed time ok">>>>,
                         check |-> [c EXCEPT !.time = <<ut2>>]]
                    ELSE
                        [out   |-> <<ret, msg \o <<"Elapsed time () too short.">>>>,
                         check |-> c]
            ELSE
                [out |-> <<FALSE, msg>>, check |-> [c EXCEPT !.time = <<ut1>>]]
    ELSE
        [out |-> None, check |-> c]

TemperatureHandler_process(c, temperature, ut1, ut2) ==
    IF c.mode = 0 THEN
        LET ret == c.temperature > temperature
            msg == IF ~ret THEN <<"Temperature OK">>
                   ELSE <<"Temperature lower than specified threshold">>
        IN  [out |-> <<ret, msg>>, check |-> c]
    ELSE IF c.mode = 1 THEN
        LET raw == c.temperature < temperature
            msg == IF ~raw THEN <<"Nothing to do. Temperature lower than threshold">>
                   ELSE <<"Temperature higher than threshold">>
        IN  IF ~raw THEN
                [out |-> <<raw, msg>>, check |-> [c EXCEPT !.time = <<ut1>>]]
            ELSE IF c.time # None THEN
                LET ret == c.time[1] + timedelta(c.deltaTime) < ut1
                IN  IF ret THEN
                        [out   |-> <<ret, msg \o <<"Elapsed time ok">>>>,
                         check |-> [c EXCEPT !.time = <<ut2>>]]
                    ELSE
                        [out   |-> <<ret, msg \o <<"Elapsed time too short.">>>>,
                         check |-> c]
            ELSE
                [out |-> <<FALSE, msg>>, check |-> [c EXCEPT !.time = <<ut1>>]]
    ELSE
        [out |-> None, check |-> c]

WindSpeedHandler_process(c, windspeed, ut1, ut2) ==
    IF c.mode = 0 THEN
        LET ret == c.windspeed < windspeed
            msg == IF ~ret THEN <<"Wind speed OK">>
                   ELSE <<"Wind speed higher than specified threshold">>
        IN  [out |-> <<ret, msg>>, check |-> c]
    ELSE IF c.mode = 1 THEN
        LET raw == c.windspeed > windspeed
            msg == IF ~raw THEN <<"Nothing to do. Windspeed higher than threshold">>
                   ELSE <<"Windspeed lower than threshold">>
        IN  IF ~raw THEN
                [out |-> <<raw, msg>>, check |-> [c EXCEPT !.time = <<ut1>>]]
            ELSE IF c.time # None THEN
                LET ret == c.time[1] + timedelta(c.deltaTime) < ut1
                IN  IF ret THEN
                        [out   |-> <<ret, msg \o <<"Elapsed time ok">>>>,
                         check |-> [c EXCEPT !.time = <<ut2>>]]
                    ELSE
                        [out   |-> <<ret, msg \o <<"Elapsed time too short.">>>>,
                         check |-> c]
            ELSE
                [out |-> <<FALSE, msg>>, check |-> [c EXCEPT !.time = <<ut1>>]]
    ELSE
        [out |-> None, check |-> c]

DewHandler_process(c, temperature, dewpoint, ut1, ut2) ==
    LET tempdiff == temperature - dewpoint
    IN  IF c.mode = 0 THEN
            LET ret == c.tempdiff > tempdiff
                msg == IF ~ret THEN <<"Dew OK">>
                       ELSE <<"Dew point difference lower than specified threshold">>
            IN  [out |-> <<ret, msg>>, check |-> c]
        ELSE IF c.mode = 1 THEN
            LET raw == c.tempdiff < tempdiff
                msg == IF ~raw THEN <<"Nothing to do. Dew point difference higher than threshold">>
                       ELSE <<"Windspeed lower than threshold">>
            IN  IF ~raw THEN
                    [out |-> <<raw, msg>>, check |-> [c EXCEPT !.time = <<ut1>>]]
                ELSE IF c.time # None THEN
                    LET ret == c.time[1] + timedelta(c.deltaTime) < ut1
                    IN  IF ret THEN
                            [out   |-> <<ret, msg \o <<"Elapsed time ok">>>>,
                             check |-> [c EXCEPT !.time = <<ut2>>]]
                        ELSE
                            [out   |-> <<ret, msg \o <<"Elapsed time too short.">>>>,
                             check |-> c]
                ELSE
                    [out |-> <<FALSE, msg>>, check |-> [c EXCEPT !.time = <<ut1>>]]
        ELSE
            [out |-> None, check |-> c]

-----------------------------------------------------------------------------
(* What a call observed, recorded beside the program's state so that       *)
(* properties over several calls can be stated.  These definitions read    *)
(* the inputs of a call and the value it returned; they never feed back    *)
(* into the handlers.                                                      *)

\* The threshold a check record stores, whatever its type.
Threshold(c) ==
    CASE c.check_type = "CheckHumidity"    -> c.humidity
      [] c.check_type = "CheckTemperature" -> c.temperature
      [] c.check_type = "CheckWindSpeed"   -> c.windspeed
      [] c.check_type = "CheckDew"         -> c.tempdiff

\* The quantity a handler compares with the threshold: the sensor's value, or
\* temperature minus dew point for the Dew handler.
Compared(sensor) ==
    IF Len(sensor) = 2 THEN sensor[1] - sensor[2] ELSE sensor[1]

\* The raw comparison of a mode (mode 0: tripped; mode 1: safe) for quantity q.
RawCondition(c, q) ==
    CASE c.check_type \in {"CheckHumidity", "CheckWindSpeed"} ->
             IF c.mode = 0 THEN Threshold(c) < q ELSE Threshold(c) > q
      [] c.check_type \in {"CheckTemperature", "CheckDew"} ->
             IF c.mode = 0 THEN Threshold(c) > q ELSE Threshold(c) < q

Verdict(out) == out # None /\ out[1]

Min(a, b) == IF a < b THEN a ELSE b

\* The bookkeeping of one process call on record c with the given sensor
\* values and clock readings, which returned out.
Observe(c, sensor, ut1, ut2, out) ==
    LET safe == c.mode = 1 /\ RawCondition(c, Compared(sensor))
        unsafe == c.mode = 1 /\ ~RawCondition(c, Compared(sensor))
        inRun == IF runStart = None THEN 0 ELSE runConfirms
    IN  /\ called' = [sensor |-> sensor, ut1 |-> ut1, ut2 |-> ut2, timeBefore |-> c.time]
        /\ prevRaw' = IF called = None \/ c.mode \notin {0, 1} THEN None
                      ELSE <<RawCondition(c, Compared(called.sensor))>>
        /\ runStart' = IF safe THEN (IF runStart = None THEN <<ut1>> ELSE runStart)
                       ELSE None
        /\ lastUnsafe' = IF unsafe THEN <<ut1>> ELSE lastUnsafe
        /\ runConfirms' = IF safe
                          THEN Min(MaxConfirms, inRun + (IF Verdict(out) THEN 1 ELSE 0))
                          ELSE 0
        /\ prevTrueAt' = IF Verdict(result) THEN <<called.ut2>> ELSE prevTrueAt
        /\ repeatOf' = IF /\ called # None
                          /\ called.sensor = sensor
                          /\ called.ut1 = ut1 /\ called.ut2 = ut1 /\ ut2 = ut1
                       THEN <<result>> ELSE None
        /\ UNCHANGED aux

-----------------------------------------------------------------------------
(* The state machine *)

Init ==
    /\ check \in
         {CheckHumidity(t, m, d) : t \in Thresholds, m \in Modes, d \in DeltaTimes}
         \cup {CheckTemperature(t, m, d) : t \in Thresholds, m \in Modes, d \in DeltaTimes}
         \cup {CheckWindSpeed(t, m, d) : t \in Thresholds, m \in Modes, d \in DeltaTimes}
         \cup {CheckDew(t, m, d) : t \in Thresholds, m \in Modes, d \in DeltaTimes}
    /\ now = 0
    /\ result = None
    /\ called = None
    /\ prevRaw = None
    /\ runStart = None
    /\ lastUnsafe = None
    /\ runConfirms = 0
    /\ prevTrueAt = None
    /\ repeatOf = None
    /\ func = None
    /\ declared = <<>>
    /\ lock = None

\* Time passes between two polls.
Tick ==
    /\ \E s \in Steps :
         /\ now + s <= MaxClock
         /\ now' = now + s
    /\ UNCHANGED <<check, result, called, prevRaw, runStart, lastUnsafe,
                   runConfirms, prevTrueAt, repeatOf, aux>>

\* The orchestrator calls HumidityHandler.process on a humidity check.
HumidityProcess ==
    /\ check.check_type = "CheckHumidity"
    /\ \E humidity \in Readings, d \in Drift :
         LET r == HumidityHandler_process(check, humidity, now, now + d)
         IN  /\ now + d <= MaxClock
             /\ check' = r.check
             /\ result' = r.out
             /\ now' = now + d
             /\ Observe(check, <<humidity>>, now, now + d, r.out)

\* The orchestrator calls TemperatureHandler.process on a temperature check.
TemperatureProcess ==
    /\ check.check_type = "CheckTemperature"
    /\ \E temperature \in Readings, d \in Drift :
         LET r == TemperatureHandler_process(check, temperature, now, now + d)
         IN  /\ now + d <= MaxClock
             /\ check' = r.check
             /\ result' = r.out
             /\ now' = now + d
             /\ Observe(check, <<temperature>>, now, now + d, r.out)

\* The orchestrator calls WindSpeedHandler.process on a wind speed check.
WindSpeedProcess ==
    /\ check.check_type = "CheckWindSpeed"
    /\ \E windspeed \in Readings, d \in Drift :
         LET r == WindSpeedHandler_process(check, windspeed, now, now + d)
         IN  /\ now + d <= MaxClock
             /\ check' = r.check
             /\ result' = r.out
             /\ now' = now + d
             /\ Observe(check, <<windspeed>>, now, now + d, r.out)

\* The orchestrator calls DewHandler.process on a dew check.
DewProcess ==
    /\ check.check_type = "CheckDew"
    /\ \E temperature \in Readings, dewpoint \in DewPoints, d \in Drift :
         LET r == DewHandler_process(check, temperature, dewpoint, now, now + d)
         IN  /\ now + d <= MaxClock
             /\ check' = r.check
             /\ result' = r.out
             /\ now' = now + d
             /\ Observe(check, <<temperature, dewpoint>>, now, now + d, r.out)

Next ==
    \/ Tick
    \/ HumidityProcess
    \/ TemperatureProcess
    \/ WindSpeedProcess
    \/ DewProcess

Spec == Init /\ [][Next]_vars

-----------------------------------------------------------------------------
(* Properties of the threshold handlers *)

\* The last step recorded a process call in the given mode.
Mode1Call == called # None /\ check.mode = 1
Mode0Call == called # None /\ check.mode = 0

\* The raw condition the last call observed.
Raw == RawCondition(check, Compared(called.sensor))

\* Where the current observation window opened: at the most recent unsafe
\* call, or at the first safe call when no call has been unsafe.
WindowOpen == IF lastUnsafe # None THEN lastUnsafe[1] ELSE runStart[1]

\* C1 as stated: a mode-1 call returns True only if the first call of the
\* current unbroken run of safe readings is at least deltaTime hours old.
C1_RunAtLeastDeltaOld ==
    (Mode1Call /\ Verdict(result)) =>
        /\ runStart # None
        /\ runStart[1] + Hours(check.deltaTime) <= called.ut1

\* C1 amended: a mode-1 call returns True only in a run of safe readings
\* whose window is more than deltaTime hours old, the window opening at the
\* most recent unsafe call (every unsafe call restarts it) or, when no call
\* was unsafe, at the first safe call; so no call in the deltaTime hours
\* before a True verdict observed the unsafe condition.
C1_WindowOlderThanDelta ==
    (Mode1Call /\ Verdict(result)) =>
        /\ runStart # None
        /\ WindowOpen + Hours(check.deltaTime) < called.ut1

\* A True verdict, with a one-hour window, on the first safe call after an
\* unsafe one.
C1_Witness ==
    /\ Mode1Call /\ Verdict(result)
    /\ check.deltaTime = 1
    /\ lastUnsafe # None
    /\ runStart = <<called.ut1>>

C3_ConfirmationsApart ==
    (Mode1Call /\ check.deltaTime >= 0 /\ Verdict(result) /\ prevTrueAt # None) =>
        called.ut1 > prevTrueAt[1] + Hours(check.deltaTime)

\* Two True verdicts with a one-hour window, an unsafe reading between them.
C3_Witness ==
    /\ Mode1Call /\ Verdict(result)
    /\ check.deltaTime = 1
    /\ prevTrueAt # None
    /\ lastUnsafe # None /\ lastUnsafe[1] >= prevTrueAt[1]

\* C4: a mode-1 call that observes the unsafe condition (the reading equal to
\* the threshold included) returns False and sets check.time to the clock
\* reading, whatever check.time held.
C4_UnsafeStamps ==
    (Mode1Call /\ ~Raw) =>
        /\ result # None /\ result[1] = FALSE
        /\ check.time = <<called.ut1>>

\* An unsafe call with the reading equal to the threshold, over an older stamp.
C4_Witness ==
    /\ Mode1Call /\ ~Raw
    /\ Compared(called.sensor) = Threshold(check)
    /\ called.timeBefore # None
    /\ called.timeBefore[1] < called.ut1

\* C5: a mode-1 call that observes the safe condition with check.time set
\* returns True iff check.time + deltaTime hours is strictly earlier than the
\* clock reading; a True verdict re-stamps check.time with the clock reading,
\* a False one leaves it unchanged.
C5_ElapsedDecides ==
    (Mode1Call /\ Raw /\ called.timeBefore # None) =>
        /\ result # None
        /\ result[1] = (called.timeBefore[1] + Hours(check.deltaTime) < called.ut1)
        /\ result[1] => check.time = <<called.ut2>>
        /\ ~result[1] => check.time = called.timeBefore

\* The scenario: threshold 80, deltaTime 1 h, reading 70, window opened at
\* t0 = 0; the call at t0 + 1.1 h returns True and re-stamps.
C5_Witness ==
    /\ Mode1Call /\ Raw
    /\ check.check_type = "CheckHumidity" /\ check.humidity = 80
    /\ check.deltaTime = 1
    /\ called.sensor = <<70>>
    /\ called.timeBefore = <<0>> /\ called.ut1 = 11
    /\ lastUnsafe = None
    /\ Verdict(result)
    /\ check.time = <<called.ut2>>

\* C6: a mode-1 call that observes the safe condition with check.time unset
\* stamps check.time with the clock reading and returns False, whatever
\* deltaTime is.
C6_FirstSafeStamps ==
    (Mode1Call /\ Raw /\ called.timeBefore = None) =>
        /\ result # None /\ result[1] = FALSE
        /\ check.time = <<called.ut1>>

\* A first safe call with a negative deltaTime, at a clock past zero.
C6_Witness ==
    /\ Mode1Call /\ Raw /\ called.timeBefore = None
    /\ check.deltaTime < 0
    /\ called.ut1 > 0

\* C7 as stated, for the flips of mode 1 (safe to unsafe, unsafe to safe): a
\* call whose raw condition differs from the previous call's replaces
\* check.time with the clock reading.
C7_FlipStamps ==
    (Mode1Call /\ prevRaw # None /\ prevRaw[1] # Raw) =>
        check.time \in {<<called.ut1>>, <<called.ut2>>}

\* C7 amended: in mode 1 a flip from safe to unsafe replaces check.time with
\* the clock reading; a flip from unsafe to safe replaces it only when the
\* call returns True and leaves it unchanged otherwise.  In mode 0 the
\* Humidity handler replaces it on a flip to the tripped condition.
C7_FlipToUnsafeStamps ==
    (called # None /\ prevRaw # None) =>
        /\ (check.mode = 1 /\ prevRaw[1] /\ ~Raw) => check.time = <<called.ut1>>
        /\ (check.mode = 1 /\ ~prevRaw[1] /\ Raw) =>
               check.time = IF Verdict(result) THEN <<called.ut2>> ELSE called.timeBefore
        /\ (check.mode = 0 /\ check.check_type = "CheckHumidity" /\ ~prevRaw[1] /\ Raw) =>
               check.time = <<called.ut1>>

\* A flip from safe to unsafe over an older stamp.
C7_Witness ==
    /\ Mode1Call /\ prevRaw = <<TRUE>> /\ ~Raw
    /\ called.timeBefore # None /\ called.timeBefore[1] < called.ut1
    /\ check.time = <<called.ut1>>

\* C8: check.time is never rolled back: once set it is never None again and
\* never decreases.
C8_TimeNeverRolledBack ==
    [][check.time # None =>
           /\ check'.time # None
           /\ check'.time[1] >= check.time[1]]_vars

\* A call that replaced a set check.time by a later reading.
C8_Witness ==
    /\ called # None
    /\ called.timeBefore # None
    /\ check.time # None
    /\ check.time[1] > called.timeBefore[1]

\* C9 as stated: in mode 0 a True verdict stamps check.time with the clock
\* reading.
C9_TrippedStamps ==
    (Mode0Call /\ Verdict(result)) => check.time = <<called.ut1>>

\* C10: in mode 0 the verdict is the strict comparison of the threshold with
\* the reading, whatever check.time and deltaTime are.
C10_Mode0IsRawComparison ==
    Mode0Call =>
        /\ result # None
        /\ result[1] =
             CASE check.check_type = "CheckHumidity" ->
                      check.humidity < called.sensor[1]
               [] check.check_type = "CheckTemperature" ->
                      check.temperature > called.sensor[1]
               [] check.check_type = "CheckWindSpeed" ->
                      check.windspeed < called.sensor[1]
               [] check.check_type = "CheckDew" ->
                      check.tempdiff > called.sensor[1] - called.sensor[2]

\* A Dew call in mode 0 with temperature minus dew point equal to the
\* threshold, the dew point not zero: the verdict is False.
C10_Witness ==
    /\ Mode0Call
    /\ check.check_type = "CheckDew"
    /\ called.sensor[2] # 0
    /\ called.sensor[1] - called.sensor[2] = check.tempdiff
    /\ result # None /\ result[1] = FALSE

\* C11: a call that repeats the call before it (same sensor readings, same
\* clock reading) returns the same verdict in mode 0; in mode 1 with
\* deltaTime >= 0 it returns False when the call before it returned False
\* (the window had not completed), check.time unset before that call included.
C11_RepeatedCallAgrees ==
    (called # None /\ repeatOf # None) =>
        /\ check.mode = 0 =>
               /\ result # None /\ repeatOf[1] # None
               /\ result[1] = repeatOf[1][1]
        /\ (check.mode = 1 /\ check.deltaTime >= 0 /\ ~Verdict(repeatOf[1])) =>
               /\ result # None
               /\ result[1] = FALSE

\* The second of two safe calls at one clock reading with deltaTime 0, the
\* first being the first call ever made (check.time unset before it).
C11_Witness ==
    /\ Mode1Call /\ Raw
    /\ repeatOf # None /\ ~Verdict(repeatOf[1])
    /\ check.deltaTime = 0
    /\ lastUnsafe = None /\ prevTrueAt = None
    /\ runStart = <<called.ut1>>
    /\ called.timeBefore = <<called.ut1>>
    /\ result[1] = FALSE

-----------------------------------------------------------------------------
(* The Time handler.  A datetime is a number of ticks, day 0 starting at   *)
(* tick 0; the site's ephemeris methods return <<datetime>> or <<>> (None). *)

\* check.mode values of a time check.
TimeModes == -8 .. 8

\* check.deltaTime values of a time check, in hours.
TimeDeltas == {-1, 0, 1}

\* Stored reference times of a time check (check.time).
StoredTimes == {None, <<16>>, <<245>>}

\* The sites bound to the handler: their ephemeris of the day.
Sites ==
    { [sunset |-> <<5>>, sunset_twilight_begin |-> <<11>>,
       sunset_twilight_end |-> <<17>>, sunrise |-> <<235>>,
       sunrise_twilight_begin |-> <<251>>, sunrise_twilight_end |-> <<262>>],
      [sunset |-> <<251>>, sunset_twilight_begin |-> None,
       sunset_twilight_end |-> <<5>>, sunrise |-> <<11>>,
       sunrise_twilight_begin |-> <<235>>, sunrise_twilight_end |-> None],
      [sunset |-> None, sunset_twilight_begin |-> <<10>>,
       sunset_twilight_end |-> None, sunrise |-> None,
       sunrise_twilight_begin |-> None, sunrise_twilight_end |-> <<22>>] }

\* A time check: the attributes TimeHandler.process reads.
CheckTime(mode, deltaTime, time) ==
    [check_type |-> "CheckTime", mode |-> mode, deltaTime |-> deltaTime, time |-> time]

abs(x) == IF x < 0 THEN -x ELSE x

\* datetime.time(): the time of day of a datetime, the date dropped.
datetime_time(dt) == dt % timedelta(24)

\* Deviations of TimeHandler.process.
Deviant_Time(c, site, ut, bug) ==
    LET m == abs(c.mode)
        sel == CASE (IF bug = "plainOne" THEN c.mode = 1 ELSE m = 1) \/ c.mode = 0
                         -> <<site.sunset, "sunset">>
                 [] m = 2 -> <<site.sunset_twilight_begin, "sunset_twilight_begin">>
                 [] m = 3 -> <<site.sunset_twilight_end, "sunset_twilight_end">>
                 [] m = 4 -> <<site.sunrise, "sunrise">>
                 [] m = 5 -> <<site.sunrise_twilight_begin, "sunrise_twilight_begin">>
                 [] m = 6 -> <<site.sunrise_twilight_end, "sunrise_twilight_end">>
                 [] OTHER -> <<c.time>>
        calls == Tail(sel)
    IN  IF sel[1] = None THEN
            [out |-> <<FALSE, <<"Could not determined reference time.">>>>,
             check |-> c, calls |-> calls]
        ELSE
            LET reftime == sel[1][1] + timedelta(c.deltaTime)
                lt == IF bug = "datetimes" THEN ut < reftime
                      ELSE datetime_time(ut) < datetime_time(reftime)
                gt == CASE bug = "datetimes" -> ut > reftime
                        [] bug = "ge" -> datetime_time(ut) >= datetime_time(reftime)
                        [] OTHER -> datetime_time(ut) > datetime_time(reftime)
            IN  [out   |-> <<IF c.mode >= 0 THEN gt ELSE lt, <<"Reference time", reftime, ut>>>>,
                 check |-> c, calls |-> calls \o <<"ut">>]

\* The whole datetimes are compared, not their times of day.
Time_datetimes(c, site, ut) == Deviant_Time(c, site, ut, "datetimes")

\* Mode -1 is not taken for sunset: the test is check.mode == 1.
Time_plainOne(c, site, ut) == Deviant_Time(c, site, ut, "plainOne")

\* The comparison for mode >= 0 is >= in place of >.
Time_ge(c, site, ut) == Deviant_Time(c, site, ut, "ge")

\* TimeHandler.process on time check c, with the site bound and ut the value
\* site.ut() returns.  calls lists the site methods the call invokes.
\* reftime += check.deltaTime offsets the reference by deltaTime hours.
TimeHandler_process(c, site, ut) ==
    LET sel ==
            IF abs(c.mode) = 1 \/ c.mode = 0 THEN
                [reftime |-> site.sunset, calls |-> <<"sunset">>]
            ELSE IF abs(c.mode) = 2 THEN
                [reftime |-> site.sunset_twilight_begin, calls |-> <<"sunset_twilight_begin">>]
            ELSE IF abs(c.mode) = 3 THEN
                [reftime |-> site.sunset_twilight_end, calls |-> <<"sunset_twilight_end">>]
            ELSE IF abs(c.mode) = 4 THEN
                [reftime |-> site.sunrise, calls |-> <<"sunrise">>]
            ELSE IF abs(c.mode) = 5 THEN
                [reftime |-> site.sunrise_twilight_begin, calls |-> <<"sunrise_twilight_begin">>]
            ELSE IF abs(c.mode) = 6 THEN
                [reftime |-> site.sunrise_twilight_end, calls |-> <<"sunrise_twilight_end">>]
            ELSE
                [reftime |-> c.time, calls |-> <<>>]
    IN  IF sel.reftime = None THEN
            [out   |-> <<FALSE, <<"Could not determined reference time.">>>>,
             check |-> c, calls |-> sel.calls]
        ELSE IF c.mode >= 0 THEN
            LET reftime == sel.reftime[1] + timedelta(c.deltaTime)
                ret == datetime_time(ut) > datetime_time(reftime)
                msg == IF ret THEN <<"Reference time has passed. Now", reftime, ut>>
                       ELSE <<"Reference time still in the future. Now", reftime, ut>>
            IN  [out |-> <<ret, msg>>, check |-> c, calls |-> sel.calls \o <<"ut">>]
        ELSE
            LET reftime == sel.reftime[1] + timedelta(c.deltaTime)
                ret == datetime_time(ut) < datetime_time(reftime)
                msg == IF ret THEN <<"Reference time still in the future. Now", reftime, ut>>
                       ELSE <<"Reference time has passed. Now", reftime, ut>>
            IN  [out |-> <<ret, msg>>, check |-> c, calls |-> sel.calls \o <<"ut">>]

-----------------------------------------------------------------------------
(* The DewPoint and AskListener handlers *)

\* A dew point check (model.py) and the check AskListenerHandler reads.
CheckDewPoint(dewpoint) ==
    [check_type |-> "CheckDewPoint", dewpoint |-> dewpoint]

CheckAskListener(question, waittime) ==
    [check_type |-> "CheckAskListener", question |-> question, waittime |-> waittime]

\* weatherstation.dew_point() returns a reading object whose number is its
\* .value (DewHandler reads dewpoint.value); DewPointHandler compares the
\* threshold with the object itself.  What number > object gives is decided
\* by the reading's class and the interpreter:
\*   "by value"  the class orders itself against numbers by its value;
\*   "default"   Python 2's default ordering, a number before any other object;
\*   "TypeError" Python 3 with a class that defines no ordering.
Orderings == {"by value", "default", "TypeError"}

\* x > reading under the given ordering: <<b>>, or <<>> when it raises.
number_gt_reading(x, reading, ordering) ==
    CASE ordering = "by value"  -> <<x > reading.value>>
      [] ordering = "default"   -> <<FALSE>>
      [] ordering = "TypeError" -> None

\* DewPointHandler.process; raised names the exception that ends the call, if any.
DewPointHandler_process(c, dew_point, ordering) ==
    LET cmp == number_gt_reading(c.dewpoint, dew_point, ordering)
    IN  IF cmp = None THEN
            [out |-> None, check |-> c, raised |-> <<"TypeError">>]
        ELSE
            LET ret == cmp[1]
                msg == IF ~ret THEN <<"Dew point OK">>
                       ELSE <<"Dew point lower than specified threshold">>
            IN  [out |-> <<ret, msg>>, check |-> c, raised |-> None]

\* Characters of the operator's answers, and the answers.
Alphabet == {"o", "k", "O", "K", "N", "n"}
MaxAnswerLen == 2
Answers == UNION {[1 .. n -> Alphabet] : n \in 0 .. MaxAnswerLen}

\* str.upper(), character by character.
upper_char(ch) ==
    CASE ch = "o" -> "O"
      [] ch = "k" -> "K"
      [] ch = "n" -> "N"
      [] OTHER    -> ch

upper(str) == [i \in 1 .. Len(str) |-> upper_char(str[i])]

\* A deviation of AskListenerHandler.process: the answer is compared as given.
AskListener_caseSensitive(c, answer) ==
    IF answer = <<"O", "K">> THEN
        [out |-> <<TRUE, <<"User send OK. Proceeding...">>>>, check |-> c]
    ELSE
        [out |-> <<FALSE, <<"Negated with ", answer>>>>, check |-> c]

\* AskListenerHandler.process, answer being what manager.askWatcher returns.
AskListenerHandler_process(c, answer) ==
    LET ret == upper(answer) = <<"O", "K">>
    IN  IF ret THEN
            [out |-> <<ret, <<"User send OK. Proceeding...">>>>, check |-> c]
        ELSE
            [out |-> <<FALSE, <<"Negated with ", answer>>>>, check |-> c]

-----------------------------------------------------------------------------
(* The state machine of the Time, DewPoint and AskListener handlers *)

AuxInit ==
    /\ check \in
         {CheckTime(m, d, t) : m \in TimeModes, d \in TimeDeltas, t \in StoredTimes}
         \cup {CheckDewPoint(t) : t \in Thresholds}
         \cup {CheckAskListener("Proceed?", w) : w \in {60}}
    /\ now = 0
    /\ result = None
    /\ called = None
    /\ prevRaw = None
    /\ runStart = None
    /\ lastUnsafe = None
    /\ runConfirms = 0
    /\ prevTrueAt = None
    /\ repeatOf = None
    /\ func = None
    /\ declared = <<>>
    /\ lock = None

history == <<prevRaw, runStart, lastUnsafe, runConfirms, prevTrueAt, repeatOf>>

\* The orchestrator calls TimeHandler.process on a time check.  The record of
\* the call keeps what the handler returns for the opposite mode on the same
\* inputs.
TimeProcess ==
    /\ check.check_type = "CheckTime"
    /\ \E site \in Sites :
         LET r == TimeHandler_process(check, site, now)
             o == TimeHandler_process([check EXCEPT !.mode = -check.mode], site, now)
         IN  /\ check' = r.check
             /\ result' = r.out
             /\ called' = [checkBefore |-> check, site |-> site, ut |-> now,
                           calls |-> r.calls, opposite |-> o.out, raised |-> None]
    /\ UNCHANGED <<now, history, aux>>

\* The orchestrator calls DewPointHandler.process on a dew point check.
DewPointProcess ==
    /\ check.check_type = "CheckDewPoint"
    /\ \E value \in Readings, ordering \in Orderings :
         LET r == DewPointHandler_process(check, [value |-> value], ordering)
         IN  /\ check' = r.check
             /\ result' = r.out
             /\ called' = [checkBefore |-> check, dew_point |-> value,
                           ordering |-> ordering, raised |-> r.raised]
    /\ UNCHANGED <<now, history, aux>>

\* The orchestrator calls AskListenerHandler.process; the operator answers.
AskListenerProcess ==
    /\ check.check_type = "CheckAskListener"
    /\ \E answer \in Answers :
         LET r == AskListenerHandler_process(check, answer)
         IN  /\ check' = r.check
             /\ result' = r.out
             /\ called' = [checkBefore |-> check, answer |-> answer, raised |-> None]
    /\ UNCHANGED <<now, history, aux>>

AuxNext ==
    \/ Tick
    \/ TimeProcess
    \/ DewPointProcess
    \/ AskListenerProcess

SpecAux == AuxInit /\ [][AuxNext]_vars

-----------------------------------------------------------------------------
(* Properties of the Time, DewPoint and AskListener handlers *)

TimeCall == called # None /\ check.check_type = "CheckTime"

\* The time of day of a datetime: its ticks within the day.
TimeOfDay(dt) == dt % Hours(24)

\* The reference time the mode of the last call's check selects.
Reference ==
    LET m == IF check.mode < 0 THEN -check.mode ELSE check.mode
    IN  CASE m \in {0, 1} -> called.site.sunset
          [] m = 2 -> called.site.sunset_twilight_begin
          [] m = 3 -> called.site.sunset_twilight_end
          [] m = 4 -> called.site.sunrise
          [] m = 5 -> called.site.sunrise_twilight_begin
          [] m = 6 -> called.site.sunrise_twilight_end
          [] OTHER -> called.checkBefore.time

\* The reference offset by deltaTime hours.
OffsetReference == Reference[1] + Hours(check.deltaTime)

\* C12: with a reference time available, the Time handler returns True iff
\* the time of day of UT is strictly after (mode >= 0) or strictly before
\* (mode < 0) the time of day of the reference offset by deltaTime hours;
\* the date is ignored.
C12_TimeOfDayCompared ==
    (TimeCall /\ Reference # None) =>
        /\ result # None
        /\ result[1] = IF check.mode >= 0
                       THEN TimeOfDay(called.ut) > TimeOfDay(OffsetReference)
                       ELSE TimeOfDay(called.ut) < TimeOfDay(OffsetReference)

\* Mode -4: UT is before sunrise by time of day, though the offset sunrise
\* falls on the day after and its time of day wrapped past midnight.
C12_Witness ==
    /\ TimeCall /\ check.mode = -4
    /\ Reference # None
    /\ Reference[1] < Hours(24) /\ OffsetReference >= Hours(24)
    /\ called.ut < TimeOfDay(OffsetReference)
    /\ result[1] = TRUE

\* The site method each magnitude of mode selects; none for 7 and above.
SelectedMethod ==
    LET m == IF check.mode < 0 THEN -check.mode ELSE check.mode
    IN  CASE m \in {0, 1} -> <<"sunset">>
          [] m = 2 -> <<"sunset_twilight_begin">>
          [] m = 3 -> <<"sunset_twilight_end">>
          [] m = 4 -> <<"sunrise">>
          [] m = 5 -> <<"sunrise_twilight_begin">>
          [] m = 6 -> <<"sunrise_twilight_end">>
          [] OTHER -> <<>>

\* C13: the reference is selected by abs(mode) alone, a magnitude of 7 or
\* more taking check.time with no ephemeris lookup; a reference of None gives
\* verdict False with an explanation, for either sign of mode.
C13_ReferenceSelection ==
    TimeCall =>
        /\ result # None
        /\ called.raised = None
        /\ \/ called.calls = SelectedMethod
           \/ called.calls = SelectedMethod \o <<"ut">>
        /\ (Reference = None) <=>
               result = <<FALSE, <<"Could not determined reference time.">>>>
        /\ Reference # None => result[2][2] = OffsetReference

\* Mode -8 with no stored time: False with the explanation, no site method called.
C13_Witness ==
    /\ TimeCall /\ check.mode = -8
    /\ called.checkBefore.time = None
    /\ called.calls = <<>>
    /\ result = <<FALSE, <<"Could not determined reference time.">>>>

\* C14 as stated, for the handlers of this specification: the Time, DewPoint
\* and AskListener handlers leave the check record unchanged, and the
\* DewPoint verdict is True iff the threshold strictly exceeds the dew point
\* reading.
C14_FrameAndDewPoint ==
    (called # None /\ check.check_type \in {"CheckTime", "CheckDewPoint", "CheckAskListener"}) =>
        /\ check = called.checkBefore
        /\ check.check_type = "CheckDewPoint" =>
               /\ result # None
               /\ result[1] = (check.dewpoint > called.dew_point)

\* C17: AskListener returns True iff the answer is "OK" in any letter case;
\* for any other answer the verdict is False and the explanation contains
\* the answer as given.
C17_OkIgnoringCase ==
    (called # None /\ check.check_type = "CheckAskListener") =>
        /\ result # None
        /\ result[1] = (called.answer \in
                          {<<"o", "k">>, <<"O", "K">>, <<"O", "k">>, <<"o", "K">>})
        /\ ~result[1] => (Len(result[2]) = 2 /\ result[2][2] = called.answer)

\* The answer "Ok" gives True.
C17_Witness ==
    /\ called # None /\ check.check_type = "CheckAskListener"
    /\ called.answer = <<"O", "k">>
    /\ result[1] = TRUE

\* C20: for a magnitude m >= 1 and the same reference, deltaTime and UT, the
\* verdicts of mode m and mode -m are never both True, and both are False
\* exactly when the times of day of UT and of the offset reference are equal.
C20_OppositeModes ==
    (TimeCall /\ check.mode # 0 /\ Reference # None) =>
        /\ result # None /\ called.opposite # None
        /\ ~(result[1] /\ called.opposite[1])
        /\ (~result[1] /\ ~called.opposite[1]) <=>
               TimeOfDay(called.ut) = TimeOfDay(OffsetReference)

\* Both verdicts False: UT and the offset reference share the time of day
\* and differ in date.
C20_Witness ==
    /\ TimeCall /\ check.mode = 5
    /\ Reference # None
    /\ called.ut # OffsetReference
    /\ TimeOfDay(called.ut) = TimeOfDay(OffsetReference)
    /\ result[1] = FALSE /\ called.opposite[1] = FALSE

-----------------------------------------------------------------------------
(* Modes other than 0 and 1 *)

\* C15: a threshold handler called with a mode other than 0 or 1 returns
\* nothing (None) and leaves check.time as it was.
C15_UndefinedModeFallsThrough ==
    (called # None /\ check.mode \notin {0, 1}) =>
        /\ result = None
        /\ check.time = called.timeBefore

\* A Dew call in mode 2 on an unsafe-looking reading, the clock past zero.
C15_Witness ==
    /\ called # None /\ check.mode = 2
    /\ check.check_type = "CheckDew"
    /\ called.ut1 > 0
    /\ result = None

-----------------------------------------------------------------------------
(* The requires decorator.  func is the __requires__ attribute of the       *)
(* decorated function: <<>> while the function has none, <<list>> after.    *)

\* Names of capabilities a handler may require.
Capabilities == {"site", "weatherstation", "manager"}

\* Number of requires decorators stacked on one function.
MaxDecorators == 4

\* A deviation of requires: a name already in the list is not added again.
requires_dedup(f, instrument) ==
    IF f # None THEN
        IF \E i \in 1 .. Len(f[1]) : f[1][i] = instrument THEN f
        ELSE <<Append(f[1], instrument)>>
    ELSE <<<<instrument>>>>

\* requires(instrument)(func): the attribute after the decoration.
requires(f, instrument) ==
    IF f # None THEN <<Append(f[1], instrument)>>
    ELSE <<<<instrument>>>>

RequiresInit ==
    /\ check = CheckDewPoint(0)
    /\ now = 0
    /\ result = None
    /\ called = None
    /\ prevRaw = None
    /\ runStart = None
    /\ lastUnsafe = None
    /\ runConfirms = 0
    /\ prevTrueAt = None
    /\ repeatOf = None
    /\ func = None
    /\ declared = <<>>
    /\ lock = None

\* One more @requires(name) is applied to the function.
Decorate ==
    /\ Len(declared) < MaxDecorators
    /\ \E instrument \in Capabilities :
         /\ func' = requires(func, instrument)
         /\ declared' = Append(declared, instrument)
    /\ UNCHANGED <<check, now, result, called, history, lock>>

RequiresNext == Decorate

SpecRequires == RequiresInit /\ [][RequiresNext]_vars

\* C16: __requires__ holds every declared name in the order the
\* declarations were applied, duplicates kept; the attribute exists once a
\* declaration has been applied.
C16_RequiresKeepsOrder ==
    /\ declared = <<>> => func = None
    /\ declared # <<>> => func = <<declared>>

\* The declarations of HumidityHandler.process followed by a repeated name.
C16_Witness ==
    /\ func # None
    /\ func[1] = <<"weatherstation", "site", "site">>

-----------------------------------------------------------------------------
(* The four mode-1 implementations side by side: one check of each type,    *)
(* the same deltaTime and check.time to start with, every call given the    *)
(* same clock readings and sensor values that make the same raw condition.  *)

HandlerTypes == {"CheckHumidity", "CheckTemperature", "CheckWindSpeed", "CheckDew"}

\* check.time of the four checks to start with.
LockTimes == {None, <<0>>}

LockInit ==
    /\ \E d \in DeltaTimes, t \in LockTimes, thr \in Thresholds :
         lock = [checks |->
                    [h \in HandlerTypes |->
                        [(CASE h = "CheckHumidity"    -> CheckHumidity(thr, 1, d)
                            [] h = "CheckTemperature" -> CheckTemperature(thr, 1, d)
                            [] h = "CheckWindSpeed"   -> CheckWindSpeed(thr, 1, d)
                            [] h = "CheckDew"         -> CheckDew(thr, 1, d))
                         EXCEPT !.time = t]],
                 outs |-> [h \in HandlerTypes |-> None],
                 safe |-> None]
    /\ check = CheckDewPoint(0)
    /\ now = 0
    /\ result = None
    /\ called = None
    /\ prevRaw = None
    /\ runStart = None
    /\ lastUnsafe = None
    /\ runConfirms = 0
    /\ prevTrueAt = None
    /\ repeatOf = None
    /\ func = None
    /\ declared = <<>>

\* Each handler's process is called once, all on the same raw condition.
LockStep ==
    /\ \E safe \in BOOLEAN, d \in Drift,
          humidity \in Readings, temperature \in Readings, windspeed \in Readings,
          dewtemp \in Readings, dewpoint \in DewPoints :
         LET c == lock.checks
             rh == HumidityHandler_process(c["CheckHumidity"], humidity, now, now + d)
             rt == TemperatureHandler_process(c["CheckTemperature"], temperature, now, now + d)
             rw == WindSpeedHandler_process(c["CheckWindSpeed"], windspeed, now, now + d)
             rd == DewHandler_process(c["CheckDew"], dewtemp, dewpoint, now, now + d)
         IN  /\ now + d <= MaxClock
             /\ RawCondition(c["CheckHumidity"], humidity) = safe
             /\ RawCondition(c["CheckTemperature"], temperature) = safe
             /\ RawCondition(c["CheckWindSpeed"], windspeed) = safe
             /\ RawCondition(c["CheckDew"], dewtemp - dewpoint) = safe
             /\ now' = now + d
             /\ lock' = [checks |->
                            [h \in HandlerTypes |->
                                CASE h = "CheckHumidity"    -> rh.check
                                  [] h = "CheckTemperature" -> rt.check
                                  [] h = "CheckWindSpeed"   -> rw.check
                                  [] h = "CheckDew"         -> rd.check],
                         outs |->
                            [h \in HandlerTypes |->
                                CASE h = "CheckHumidity"    -> rh.out
                                  [] h = "CheckTemperature" -> rt.out
                                  [] h = "CheckWindSpeed"   -> rw.out
                                  [] h = "CheckDew"         -> rd.out],
                         safe |-> <<safe>>]
    /\ UNCHANGED <<check, result, called, history, func, declared>>

LockNext ==
    \/ Tick
    \/ LockStep

SpecLockstep == LockInit /\ [][LockNext]_vars

\* C18: after every call the four implementations have returned the same
\* verdict and left the same check.time.
C18_SameStateMachine ==
    (lock # None /\ lock.safe # None) =>
        \A h, g \in HandlerTypes :
            /\ lock.outs[h] # None
            /\ lock.outs[h][1] = lock.outs[g][1]
            /\ lock.checks[h].time = lock.checks[g].time

\* The four confirm together, an hour and more after an unsafe reading.
C18_Witness ==
    /\ lock # None /\ lock.safe = <<TRUE>>
    /\ \A h \in HandlerTypes :
          /\ lock.checks[h].deltaTime = 1
          /\ lock.outs[h][1] = TRUE
          /\ lock.checks[h].time # None /\ lock.checks[h].time[1] >= 11

-----------------------------------------------------------------------------
(* Mode 1 over an unbounded run.  The handlers read the clock only to       *)
(* compare it with check.time + deltaTime and to stamp check.time, so the   *)
(* clock is kept here as the time elapsed since the stamp: after every step *)
(* check.time is None or 0 and now is the elapsed time, held at MaxClock    *)
(* once it is past every window (MaxClock exceeds the longest deltaTime).   *)

\* Record c and clock reading clock, measured from c.time.
Rebase(c, clock) ==
    IF c.time = None
    THEN [check |-> c, now |-> Min(clock, MaxClock)]
    ELSE [check |-> [c EXCEPT !.time = <<0>>],
          now   |-> Min(clock - c.time[1], MaxClock)]

\* The process method of the handler that serves record c.
Process(c, sensor, ut1, ut2) ==
    CASE c.check_type = "CheckHumidity"    -> HumidityHandler_process(c, sensor[1], ut1, ut2)
      [] c.check_type = "CheckTemperature" -> TemperatureHandler_process(c, sensor[1], ut1, ut2)
      [] c.check_type = "CheckWindSpeed"   -> WindSpeedHandler_process(c, sensor[1], ut1, ut2)
      [] c.check_type = "CheckDew"         -> DewHandler_process(c, sensor[1], sensor[2], ut1, ut2)

\* The sensor values a call on record c can read.
SensorValues(c) ==
    IF c.check_type = "CheckDew"
    THEN {<<t, p>> : t \in Readings, p \in DewPoints}
    ELSE {<<r>> : r \in Readings}

LiveInit ==
    /\ \E thr \in Thresholds, d \in DeltaTimes :
         check \in {CheckHumidity(thr, 1, d), CheckTemperature(thr, 1, d),
                    CheckWindSpeed(thr, 1, d), CheckDew(thr, 1, d)}
    /\ now = 0
    /\ result = None
    /\ called = None
    /\ prevRaw = None
    /\ runStart = None
    /\ lastUnsafe = None
    /\ runConfirms = 0
    /\ prevTrueAt = None
    /\ repeatOf = None
    /\ func = None
    /\ declared = <<>>
    /\ lock = None

\* Time passes.
LiveTick ==
    /\ \E s \in Steps : now' = Min(now + s, MaxClock)
    /\ UNCHANGED <<check, result, called, history, aux>>

\* The orchestrator calls the handler of the check; the calls are numbered
\* alternately so that two calls in a row are two steps.
LiveCall ==
    /\ \E sensor \in SensorValues(check), d \in Drift :
         LET r == Process(check, sensor, now, now + d)
             b == Rebase(r.check, now + d)
         IN  /\ check' = b.check
             /\ now' = b.now
             /\ result' = r.out
             /\ called' = [safe |-> RawCondition(check, Compared(sensor)),
                           seq  |-> IF called = None THEN 0 ELSE 1 - called.seq]
    /\ UNCHANGED <<history, aux>>

LiveNext ==
    \/ LiveTick
    \/ LiveCall

\* Calls keep occurring and the clock keeps advancing.
LiveSpec ==
    /\ LiveInit
    /\ [][LiveNext]_vars
    /\ WF_vars(LiveTick)
    /\ WF_vars(LiveCall)

\* A call that observes the raw condition unsafe.
UnsafeCall == called' # called /\ ~called'.safe

\* A call that returns verdict True.
TrueCall == called' # called /\ Verdict(result')

\* C19: if from some call onward every call observes the raw safe condition,
\* then calls returning verdict True occur again and again.
C19_ConfirmationRecurs ==
    (<>[][~UnsafeCall]_vars) => []<><<TrueCall>>_vars

\* A call on a safe reading confirms, with a window of an hour or more.
C19_Witness ==
    /\ called # None /\ called.safe
    /\ check.deltaTime >= 1
    /\ Verdict(result)
    /\ check.time = <<0>>

====
